---- MODULE Spec2Model ----
(***************************************************************************)
(* Wavetable synthesis (src/lib.rs): four periodic waveform functions, the *)
(* WaveTable structs built from them by new(size), and synth(n, f, fs),    *)
(* which resamples a table by phase accumulation and linear blending.      *)
(*                                                                         *)
(* f64 values are modelled as exact rationals n/d in lowest terms plus the *)
(* three non-finite values NaN, +Inf and -Inf, with the IEEE-754 rules for *)
(* the operations the code performs on them.  Rounding, overflow of finite *)
(* values and the sign of zero are not modelled.                           *)
(***************************************************************************)
EXTENDS Integers, Sequences, FiniteSets, TLC

VARIABLES tables, requested, calls

vars == <<tables, requested, calls>>

(***************************************************************************)
(* Bounds of the model.                                                    *)
(***************************************************************************)
MaxSize == 4
MaxN == 3
MaxNum == 3
MaxDen == 2
ConcMaxSize == 2
ConcMaxN == 1

(***************************************************************************)
(* f64                                                                     *)
(***************************************************************************)
Abs(x) == IF x < 0 THEN -x ELSE x

RECURSIVE Gcd(_, _)
Gcd(a, b) == IF b = 0 THEN a ELSE Gcd(b, a % b)

\* The finite value n/d (d # 0), in lowest terms with a positive denominator.
Rat(n, d) ==
    LET s == IF d < 0 THEN -1 ELSE 1
        g == Gcd(Abs(n), Abs(d))
    IN  [k |-> "fin", n |-> (s * n) \div g, d |-> (s * d) \div g]

NaN == [k |-> "nan", n |-> 0, d |-> 1]
PInf == [k |-> "inf", n |-> 1, d |-> 1]
NInf == [k |-> "inf", n |-> -1, d |-> 1]

IsFin(a) == a.k = "fin"
IsNaN(a) == a.k = "nan"
IsInf(a) == a.k = "inf"

\* The sign of a value that is not NaN: -1, 0 or 1.
Sgn(a) == IF a.n < 0 THEN -1 ELSE IF a.n > 0 THEN 1 ELSE 0

SignedInf(s) == IF s < 0 THEN NInf ELSE PInf

\* `x as f64` for a usize x.
FromUsize(x) == Rat(x, 1)

\* a * b
FMul(a, b) ==
    IF IsNaN(a) \/ IsNaN(b) THEN NaN
    ELSE IF IsInf(a) \/ IsInf(b)
         THEN IF Sgn(a) * Sgn(b) = 0 THEN NaN ELSE SignedInf(Sgn(a) * Sgn(b))
         ELSE Rat(a.n * b.n, a.d * b.d)

\* a / b; a finite zero divisor is +0.0
FDiv(a, b) ==
    IF IsNaN(a) \/ IsNaN(b) THEN NaN
    ELSE IF IsInf(a)
         THEN IF IsInf(b) THEN NaN
              ELSE SignedInf(IF Sgn(b) < 0 THEN -Sgn(a) ELSE Sgn(a))
    ELSE IF IsInf(b) THEN Rat(0, 1)
    ELSE IF b.n = 0
         THEN IF a.n = 0 THEN NaN ELSE SignedInf(Sgn(a))
         ELSE Rat(a.n * b.d, a.d * b.n)

\* a + b
FAdd(a, b) ==
    IF IsNaN(a) \/ IsNaN(b) THEN NaN
    ELSE IF IsInf(a)
         THEN IF IsInf(b) /\ Sgn(a) # Sgn(b) THEN NaN ELSE a
    ELSE IF IsInf(b) THEN b
    ELSE Rat(a.n * b.d + b.n * a.d, a.d * b.d)

\* -a
FNeg(a) == IF IsNaN(a) THEN NaN ELSE [a EXCEPT !.n = -a.n]

\* a - b
FSub(a, b) == FAdd(a, FNeg(b))

\* a < b; false when either side is NaN
FLt(a, b) ==
    IF IsNaN(a) \/ IsNaN(b) THEN FALSE
    ELSE IF IsInf(a) THEN Sgn(a) < 0 /\ ~(IsInf(b) /\ Sgn(b) < 0)
    ELSE IF IsInf(b) THEN Sgn(b) > 0
    ELSE a.n * b.d < b.n * a.d

\* a <= b; false when either side is NaN
FLe(a, b) == ~IsNaN(a) /\ ~IsNaN(b) /\ ~FLt(b, a)

\* The integer part of a finite value, rounded toward zero.
Trunc(a) == IF a.n >= 0 THEN a.n \div a.d ELSE -((-a.n) \div a.d)

\* f64::fract: self - self.trunc(); NaN for NaN and for the infinities.
Fract(a) ==
    IF IsFin(a) THEN FSub(a, Rat(Trunc(a), 1)) ELSE NaN

\* AsUsize with a wrapping cast: a negative value keeps its sign and so
\* lands outside every table.
AsUsize_Wrapping(a) ==
    CASE IsNaN(a) -> 0
      [] IsInf(a) /\ Sgn(a) < 0 -> 0
      [] IsFin(a) -> Trunc(a)

\* `x as usize`: saturating; NaN and negative values give 0.  +Inf gives
\* usize::MAX, which Line60 treats apart (BeyondUsize).
AsUsize(a) ==
    CASE IsNaN(a) -> 0
      [] Sgn(a) <= 0 -> 0
      [] IsFin(a) /\ Sgn(a) > 0 -> Trunc(a)

\* The values whose cast is usize::MAX, an index beyond the length of any
\* Vec<f64>.
BeyondUsize(a) == IsInf(a) /\ Sgn(a) > 0

(***************************************************************************)
(* Waveform functions                                                      *)
(***************************************************************************)
Shapes == {"Sine", "Tri", "Saw", "Square"}

\* sin(x) for x = 2*PI*q with 0 <= q <= 1/2, by the rational approximation
\* 16x(PI - x) / (5 PI^2 - 4x(PI - x)) = 32q(1 - 2q) / (5 - 8q(1 - 2q)).
\* It is exact at q = 0, 1/4, 1/2 and stays within [0, 1], as sin does.
HalfSine(q) ==
    LET u == q.n * (q.d - 2 * q.n)
    IN  Rat(32 * u, 5 * q.d * q.d - 8 * u)

\* (2.0 * PI * phase).sin(): sin is not rational, so the library call is
\* modelled by HalfSine on each half period (odd about phase 1/2).
sine(phase) ==
    IF ~IsFin(phase) THEN NaN
    ELSE LET fl == phase.n \div phase.d
             q == FSub(phase, Rat(fl, 1))
         IN  IF FLe(q, Rat(1, 2)) THEN HalfSine(q)
             ELSE FNeg(HalfSine(FSub(q, Rat(1, 2))))

\* tri without the falling branch.
tri_NoFold(phase) == FSub(FMul(Rat(4, 1), phase), Rat(1, 1))

tri(phase) ==
    IF FLt(phase, Rat(1, 2))
    THEN FSub(FMul(Rat(4, 1), phase), Rat(1, 1))
    ELSE FAdd(FMul(Rat(-4, 1), phase), Rat(3, 1))

saw(phase) == FAdd(FMul(Rat(-2, 1), phase), Rat(1, 1))

square(phase) == IF FLt(phase, Rat(1, 2)) THEN Rat(1, 1) ELSE Rat(-1, 1)

\* [<$waveform:lower>]: the waveform function of a struct.
Waveform(shape, phase) ==
    CASE shape = "Sine" -> sine(phase)
      [] shape = "Tri" -> tri(phase)
      [] shape = "Saw" -> saw(phase)
      [] shape = "Square" -> square(phase)

(***************************************************************************)
(* WaveTable                                                               *)
(***************************************************************************)
\* A struct $waveform { size, table }; the table is indexed from 0.
WaveTableOf(shape, size, table) ==
    [built |-> TRUE, shape |-> shape, size |-> size, table |-> table]

\* A binding that holds no struct yet.
NoTable == [built |-> FALSE, shape |-> "Saw", size |-> 0, table |-> <<>>]

\* new sampling at phase (i + 1) / size.
new_PhaseOffByOne(shape, size) ==
    WaveTableOf(shape, size,
        [i \in 0 .. size - 1 |->
            Waveform(shape, FDiv(FromUsize(i + 1), FromUsize(size)))])

\* new that never builds an empty table: size 0 is raised to 1.
new_AtLeastOne(shape, size) ==
    LET m == IF size = 0 THEN 1 ELSE size
    IN  WaveTableOf(shape, m,
            [i \in 0 .. m - 1 |->
                Waveform(shape, FDiv(FromUsize(i), FromUsize(m)))])

\* (0..size).map(|i| waveform(i as f64 / size as f64)).collect()
new(shape, size) ==
    WaveTableOf(shape, size,
        [i \in 0 .. size - 1 |->
            Waveform(shape, FDiv(FromUsize(i), FromUsize(size)))])

\* Pos without .fract().
Pos_NoFract(n, f, fs, size) ==
    FMul(FDiv(FMul(FromUsize(n), f), fs), FromUsize(size))

\* let pos = (n as f64 * f / fs).fract() * self.size as f64;
Pos(n, f, fs, size) ==
    FMul(Fract(FDiv(FMul(FromUsize(n), f), fs)), FromUsize(size))

\* RelPos as the fractional part of pos.
RelPos_Fractional(pos, size) == Fract(pos)

\* RelPos without the division.
RelPos_NoDivide(pos, size) == pos

\* let rel_pos = pos / self.size as f64;
RelPos(pos, size) == FDiv(pos, FromUsize(size))

\* pos as usize
Index0(pos) == AsUsize(pos)

\* Index1 without the wraparound.
Index1_NoWrap(pos, size) == AsUsize(pos) + 1

\* (pos as usize + 1) % self.size, for size > 0
Index1(pos, size) == (AsUsize(pos) + 1) % size

\* Blend with the two weights swapped.
Blend_Swapped(rel_pos, a, b) ==
    FAdd(FMul(rel_pos, a), FMul(FSub(Rat(1, 1), rel_pos), b))

\* (1.0 - rel_pos) * a + rel_pos * b
Blend(rel_pos, a, b) ==
    FAdd(FMul(FSub(Rat(1, 1), rel_pos), a), FMul(rel_pos, b))

Returned(v, i0, i1) == [st |-> "ok", v |-> v, i0 |-> i0, i1 |-> i1]
Panicked(why, i0, i1) == [st |-> why, v |-> NaN, i0 |-> i0, i1 |-> i1]

\* The last expression of synth, in evaluation order: the first index
\* (bounds-checked), the remainder (panics on a zero divisor), the second
\* index (bounds-checked), the blend.  i0 and i1 record the indices used
\* (-1: not computed).
Line60(wt, pos, rel_pos) ==
    LET i0 == Index0(pos)
    IN  IF BeyondUsize(pos) THEN Panicked("index out of bounds", -1, -1)
        ELSE IF i0 \notin DOMAIN wt.table THEN Panicked("index out of bounds", i0, -1)
        ELSE IF wt.size = 0 THEN Panicked("remainder by zero", i0, -1)
        ELSE LET i1 == Index1(pos, wt.size)
             IN  IF i1 \notin DOMAIN wt.table
                 THEN Panicked("index out of bounds", i0, i1)
                 ELSE Returned(Blend(rel_pos, wt.table[i0], wt.table[i1]), i0, i1)

\* synth as a function of the struct and its arguments.
synth(wt, n, f, fs) ==
    LET pos == Pos(n, f, fs, wt.size)
    IN  Line60(wt, pos, RelPos(pos, wt.size))

(***************************************************************************)
(* Callers.  A call of synth runs line by line; pc names the line a call   *)
(* is about to execute, and pos and rel_pos are its locals.                *)
(***************************************************************************)
Zero == Rat(0, 1)

NoOutcome == [st |-> "none", v |-> NaN, i0 |-> -1, i1 |-> -1]

Idle ==
    [pc |-> "idle", t |-> 1, n |-> 0, f |-> Zero, fs |-> Zero,
     pos |-> Zero, rel_pos |-> Zero, out |-> NoOutcome]

\* let wt = $waveform::new(size): binds slot t, once.
Construct(t, shape, size) ==
    /\ ~tables[t].built
    /\ tables' = [tables EXCEPT ![t] = new(shape, size)]
    /\ requested' = [requested EXCEPT ![t] = [shape |-> shape, size |-> size]]
    /\ UNCHANGED calls

\* Caller c enters wt.synth(n, f, fs) on the struct of slot t.
SynthCall(c, t, n, f, fs) ==
    /\ calls[c].pc \in {"idle", "returned", "panicked"}
    /\ tables[t].built
    /\ calls' = [calls EXCEPT ![c] =
                    [Idle EXCEPT !.pc = "l58", !.t = t, !.n = n, !.f = f, !.fs = fs]]
    /\ UNCHANGED <<tables, requested>>

\* SynthLine58 with pos kept in storage all callers share.
SynthLine58_SharedScratch(c) ==
    /\ calls[c].pc = "l58"
    /\ LET p == Pos(calls[c].n, calls[c].f, calls[c].fs, tables[calls[c].t].size)
       IN  calls' = [d \in DOMAIN calls |->
                        IF d = c THEN [calls[d] EXCEPT !.pos = p, !.pc = "l59"]
                        ELSE [calls[d] EXCEPT !.pos = p]]
    /\ UNCHANGED <<tables, requested>>

SynthLine58(c) ==
    /\ calls[c].pc = "l58"
    /\ calls' = [calls EXCEPT
                    ![c].pos = Pos(calls[c].n, calls[c].f, calls[c].fs,
                                   tables[calls[c].t].size),
                    ![c].pc = "l59"]
    /\ UNCHANGED <<tables, requested>>

SynthLine59(c) ==
    /\ calls[c].pc = "l59"
    /\ calls' = [calls EXCEPT
                    ![c].rel_pos = RelPos(calls[c].pos, tables[calls[c].t].size),
                    ![c].pc = "l60"]
    /\ UNCHANGED <<tables, requested>>

SynthLine60(c) ==
    /\ calls[c].pc = "l60"
    /\ LET out == Line60(tables[calls[c].t], calls[c].pos, calls[c].rel_pos)
       IN  calls' = [calls EXCEPT
                        ![c].out = out,
                        ![c].pc = IF out.st = "ok" THEN "returned" ELSE "panicked"]
    /\ UNCHANGED <<tables, requested>>

(***************************************************************************)
(* tests::write_wave: one struct and one caller that calls synth for       *)
(* n = 0, 1, 2, ... with a fixed f and fs.  The model covers every shape,  *)
(* every size up to MaxSize (0 included), sample indices up to MaxN and a  *)
(* grid of frequencies and sample rates that holds negative and zero       *)
(* frequencies and zero and negative sample rates.                         *)
(***************************************************************************)
Sizes == 0 .. MaxSize
Samples == 0 .. MaxN
Freqs == {Rat(a, b) : a \in -1 .. MaxNum, b \in 1 .. MaxDen}
Rates == {Rat(a, b) : a \in -1 .. MaxNum, b \in 1 .. MaxDen}

\* write_wave(&wt, f, fs, ..): the first iteration of the loop, i = 0.
WriteWaveFirst(c, t, f, fs) ==
    /\ calls[c].pc = "idle"
    /\ SynthCall(c, t, 0, f, fs)

\* The next iteration, entered when synth has returned (a panic unwinds
\* out of the loop).
WriteWaveNext(c) ==
    /\ calls[c].pc = "returned"
    /\ calls[c].n < MaxN
    /\ SynthCall(c, calls[c].t, calls[c].n + 1, calls[c].f, calls[c].fs)

Init ==
    /\ tables = [t \in {1} |-> NoTable]
    /\ requested = [t \in {1} |-> [shape |-> "Saw", size |-> 0]]
    /\ calls = [c \in {1} |-> Idle]

Next ==
    \/ \E shape \in Shapes, size \in Sizes : Construct(1, shape, size)
    \/ \E f \in Freqs, fs \in Rates : WriteWaveFirst(1, 1, f, fs)
    \/ WriteWaveNext(1)
    \/ SynthLine58(1)
    \/ SynthLine59(1)
    \/ SynthLine60(1)

Spec == Init /\ [][Next]_vars

(***************************************************************************)
(* Two structs shared by two callers whose calls interleave line by line.  *)
(***************************************************************************)
ConcSlots == {1, 2}
ConcCallers == {1, 2}
ConcShapes == {"Tri", "Saw"}
ConcSizes == 1 .. ConcMaxSize
ConcSamples == 0 .. ConcMaxN
ConcFreqs == {Rat(1, 2), Rat(3, 4)}
ConcRates == {Rat(1, 1)}

InitConc ==
    /\ tables = [t \in ConcSlots |-> NoTable]
    /\ requested = [t \in ConcSlots |-> [shape |-> "Saw", size |-> 0]]
    /\ calls = [c \in ConcCallers |-> Idle]

NextConc ==
    \/ \E t \in ConcSlots, shape \in ConcShapes, size \in ConcSizes :
          Construct(t, shape, size)
    \/ \E c \in ConcCallers, t \in ConcSlots, n \in ConcSamples,
          f \in ConcFreqs, fs \in ConcRates : SynthCall(c, t, n, f, fs)
    \/ \E c \in ConcCallers : SynthLine58(c)
    \/ \E c \in ConcCallers : SynthLine59(c)
    \/ \E c \in ConcCallers : SynthLine60(c)

SpecConc == InitConc /\ [][NextConc]_vars

(***************************************************************************)
(* Properties                                                              *)
(***************************************************************************)
One == Rat(1, 1)
Half == Rat(1, 2)

\* The largest integer not above a finite value.
Floor(a) == a.n \div a.d

InUnitRange(v) == FLe(Rat(-1, 1), v) /\ FLe(v, One)

Finished(c) == calls[c].pc \in {"returned", "panicked"}

TableOfCall(c) == tables[calls[c].t]

\* The inputs the contract calls valid: size >= 1, n >= 0, f >= 0, fs > 0.
ValidCall(c) ==
    /\ TableOfCall(c).size >= 1
    /\ FLe(Zero, calls[c].f)
    /\ FLt(Zero, calls[c].fs)

\* The sequence s as a table indexed from 0.
TableFrom(s) == [i \in 0 .. Len(s) - 1 |-> Rat(s[i + 1], 1)]

\* C1: the generating functions as the contract states them.
C1_Generating(shape, p) ==
    CASE shape = "Sine" -> sine(p)
      [] shape = "Tri" ->
            IF FLt(p, Half) THEN FSub(FMul(Rat(4, 1), p), One)
            ELSE FSub(Rat(3, 1), FMul(Rat(4, 1), p))
      [] shape = "Saw" -> FSub(One, FMul(Rat(2, 1), p))
      [] shape = "Square" -> IF FLt(p, Half) THEN One ELSE FNeg(One)

\* C1: for every shape and every size >= 1, new(size) yields a table of
\* exactly size samples, table[i] is the shape's generating function at
\* phase i/size for every i in [0, size), and the size field is size.
C1_TableSamplesFunction ==
    \A t \in DOMAIN tables :
        (tables[t].built /\ requested[t].size >= 1) =>
            /\ tables[t].shape = requested[t].shape
            /\ tables[t].size = requested[t].size
            /\ DOMAIN tables[t].table = 0 .. requested[t].size - 1
            /\ \A i \in 0 .. requested[t].size - 1 :
                  tables[t].table[i] =
                      C1_Generating(requested[t].shape, Rat(i, requested[t].size))

C1_Witness ==
    \E t \in DOMAIN tables :
        /\ tables[t].built
        /\ tables[t].shape = "Sine"
        /\ tables[t].size = 4
        /\ tables[t].table = TableFrom(<<0, 1, 0, -1>>)

\* C2: the result of synth as the contract states it, in exact arithmetic;
\* the blend weight is the phase itself.
C2_Expected(wt, n, f, fs) ==
    LET raw == FDiv(FMul(Rat(n, 1), f), fs)
        phase == FSub(raw, Rat(Floor(raw), 1))
        pos == FMul(phase, Rat(wt.size, 1))
        i0 == Floor(pos)
        i1 == (i0 + 1) % wt.size
        rel == phase
    IN  [v |-> FAdd(FMul(FSub(One, rel), wt.table[i0]), FMul(rel, wt.table[i1])),
         i0 |-> i0, i1 |-> i1]

\* C2: for size >= 1, n >= 0, f >= 0, fs > 0, synth returns
\* (1 - rel) * table[i0] + rel * table[i1] with phase the fractional part of
\* n*f/fs, pos = phase*size, i0 = floor(pos), i1 = (i0 + 1) mod size and
\* rel = pos/size = phase (not pos - i0).
C2_SynthFormula ==
    \A c \in DOMAIN calls :
        (Finished(c) /\ ValidCall(c)) =>
            LET e == C2_Expected(TableOfCall(c), calls[c].n, calls[c].f, calls[c].fs)
            IN  /\ calls[c].pc = "returned"
                /\ calls[c].out.v = e.v
                /\ calls[c].out.i0 = e.i0
                /\ calls[c].out.i1 = e.i1

\* A call where the phase and pos - i0 differ and the two samples differ.
C2_Witness ==
    \E c \in DOMAIN calls :
        /\ calls[c].pc = "returned"
        /\ ValidCall(c)
        /\ calls[c].rel_pos # FSub(calls[c].pos, Rat(Floor(calls[c].pos), 1))
        /\ TableOfCall(c).table[calls[c].out.i0] # TableOfCall(c).table[calls[c].out.i1]

\* C3: for every shape, size >= 1 and valid input, the value synth returns
\* lies in [-1, 1]: both table entries used are in [-1, 1] and the blend
\* weight is in [0, 1).
C3_RangeBound ==
    \A c \in DOMAIN calls :
        (Finished(c) /\ ValidCall(c)) =>
            /\ calls[c].pc = "returned"
            /\ InUnitRange(calls[c].out.v)
            /\ InUnitRange(TableOfCall(c).table[calls[c].out.i0])
            /\ InUnitRange(TableOfCall(c).table[calls[c].out.i1])
            /\ FLe(Zero, calls[c].rel_pos)
            /\ FLt(calls[c].rel_pos, One)

\* A blend strictly between two different samples.
C3_Witness ==
    \E c \in DOMAIN calls :
        /\ calls[c].pc = "returned"
        /\ ValidCall(c)
        /\ FLt(Zero, calls[c].rel_pos)
        /\ TableOfCall(c).table[calls[c].out.i0] = One
        /\ TableOfCall(c).table[calls[c].out.i1] = FNeg(One)
        /\ FLt(FNeg(One), calls[c].out.v)
        /\ FLt(calls[c].out.v, One)

\* C4: for size >= 1 and valid input both indices synth reads are in
\* [0, size); in the last sub-interval (i0 = size - 1) the second index is
\* 0, and index size is never read.
C4_IndicesInBounds ==
    \A c \in DOMAIN calls :
        (Finished(c) /\ ValidCall(c)) =>
            /\ calls[c].pc = "returned"
            /\ calls[c].out.i0 \in 0 .. TableOfCall(c).size - 1
            /\ calls[c].out.i1 \in 0 .. TableOfCall(c).size - 1
            /\ (calls[c].out.i0 = TableOfCall(c).size - 1 => calls[c].out.i1 = 0)

C4_Witness ==
    \E c \in DOMAIN calls :
        /\ calls[c].pc = "returned"
        /\ ValidCall(c)
        /\ TableOfCall(c).size >= 2
        /\ calls[c].out.i0 = TableOfCall(c).size - 1
        /\ calls[c].out.i1 = 0

\* The valid argument triples of the grid.
ValidArgs ==
    {a \in Samples \X Freqs \X Rates : FLe(Zero, a[2]) /\ FLt(Zero, a[3])}

\* n*f/fs of a triple, and its value mod 1.
CycleRaw == [a \in ValidArgs |-> FDiv(FMul(Rat(a[1], 1), a[2]), a[3])]
CycleFrac == [a \in ValidArgs |-> FSub(CycleRaw[a], Rat(Floor(CycleRaw[a]), 1))]


\* One triple for each value of n*f/fs mod 1: the same triple for all the
\* valid triples that are a whole number of cycles apart.
CycleRep ==
    [a \in ValidArgs |-> CHOOSE b \in ValidArgs : CycleFrac[b] = CycleFrac[a]]

ArgsOfCall(c) == <<calls[c].n, calls[c].f, calls[c].fs>>

\* C5: for every shape and size >= 1 synth depends on (n, f, fs) only
\* through n*f/fs mod 1: two valid triples whose n*f/fs differ by an integer
\* give the same result.  Every call agrees with synth at the one triple
\* that stands for its value of n*f/fs mod 1, so any two of them agree.
C5_Periodic ==
    \A c \in DOMAIN calls :
        (Finished(c) /\ ValidCall(c)) =>
            LET b == CycleRep[ArgsOfCall(c)]
                o == synth(TableOfCall(c), b[1], b[2], b[3])
            IN  o.st = calls[c].out.st /\ o.v = calls[c].out.v

\* A call that another triple, a whole number of cycles away and inside a
\* cycle, must agree with.
C5_Witness ==
    \E c \in DOMAIN calls :
        /\ calls[c].pc = "returned"
        /\ ValidCall(c)
        /\ CycleFrac[ArgsOfCall(c)] # Zero
        /\ TableOfCall(c).table[calls[c].out.i0] # TableOfCall(c).table[calls[c].out.i1]
        /\ CycleRaw[CycleRep[ArgsOfCall(c)]] # CycleRaw[ArgsOfCall(c)]

\* C6: for every shape, size >= 1, every f and fs > 0, synth(0, f, fs) is
\* table[0] exactly.
C6_ZeroPhase ==
    \A c \in DOMAIN calls :
        (/\ Finished(c)
         /\ TableOfCall(c).size >= 1
         /\ calls[c].n = 0
         /\ FLt(Zero, calls[c].fs)) =>
            /\ calls[c].pc = "returned"
            /\ calls[c].out.v = TableOfCall(c).table[0]

C6_Witness ==
    \E c \in DOMAIN calls :
        /\ calls[c].pc = "returned"
        /\ calls[c].n = 0
        /\ FLt(calls[c].f, Zero)
        /\ FLt(Zero, calls[c].fs)
        /\ TableOfCall(c).size >= 2
        /\ TableOfCall(c).table[1] # TableOfCall(c).table[0]
        /\ calls[c].out.v = TableOfCall(c).table[0]

\* C7 as stated: Tri::new(4) produces the table [-1, 0, 1, -1].
C7_TriTableAsStated ==
    \A t \in DOMAIN tables :
        (tables[t].built /\ tables[t].shape = "Tri" /\ requested[t].size = 4) =>
            tables[t].table = TableFrom(<<-1, 0, 1, -1>>)

\* C7 amended: Tri::new(4) produces the table [-1, 0, 1, 0]: the sample at
\* phase 0.75 is -4 * 0.75 + 3 = 0.
C7_TriTable ==
    \A t \in DOMAIN tables :
        (tables[t].built /\ tables[t].shape = "Tri" /\ requested[t].size = 4) =>
            tables[t].table = TableFrom(<<-1, 0, 1, 0>>)

C7_Witness ==
    \E t \in DOMAIN tables :
        tables[t].built /\ tables[t].shape = "Tri" /\ requested[t].size = 4

\* C8: after new(size) every sequence and interleaving of synth calls, by
\* several callers on the same struct and on other structs, leaves each
\* struct's size and samples unchanged, and each call's result is a function
\* of (table, n, f, fs) alone.
C8_ImmutableIndependent ==
    /\ [](\A c \in DOMAIN calls :
            Finished(c) =>
                calls[c].out =
                    synth(TableOfCall(c), calls[c].n, calls[c].f, calls[c].fs))
    /\ [][\A t \in DOMAIN tables : tables[t].built => tables'[t] = tables[t]]_vars

\* One caller has returned from a call on a struct while the other is in
\* the middle of a call on the same struct with a different pos, and a
\* second struct exists.
C8_Witness ==
    \E c, d \in DOMAIN calls :
        /\ c # d
        /\ calls[c].pc = "returned"
        /\ calls[d].pc = "l60"
        /\ calls[c].t = calls[d].t
        /\ calls[c].pos # calls[d].pos
        /\ \A t \in DOMAIN tables : tables[t].built

\* C9: for size >= 1 and n >= 0 synth returns a value and never fails, for
\* any f and fs, fs = 0 and negative f included; with fs = 0 the value
\* returned is not finite.
C9_DegenerateInputsReturn ==
    \A c \in DOMAIN calls :
        (Finished(c) /\ TableOfCall(c).size >= 1) =>
            /\ calls[c].pc = "returned"
            /\ calls[c].out.st = "ok"
            /\ (calls[c].fs = Zero => ~IsFin(calls[c].out.v))

C9_Witness ==
    \E c \in DOMAIN calls :
        /\ calls[c].pc = "returned"
        /\ calls[c].fs = Zero
        /\ FLt(calls[c].f, Zero)
        /\ calls[c].n > 0
        /\ IsNaN(calls[c].out.v)

\* A negative frequency with a positive rate: a finite value is returned.
C9_WitnessNegative ==
    \E c \in DOMAIN calls :
        /\ calls[c].pc = "returned"
        /\ FLt(calls[c].pos, FNeg(One))
        /\ IsFin(calls[c].out.v)

\* C10: new(0) does not fail and returns a table with zero samples; every
\* synth call on it fails instead of returning an amplitude.
C10_ZeroSizeUnguarded ==
    \A t \in DOMAIN tables :
        (tables[t].built /\ requested[t].size = 0) =>
            /\ tables[t].size = 0
            /\ DOMAIN tables[t].table = {}
            /\ \A c \in DOMAIN calls :
                  (Finished(c) /\ calls[c].t = t) =>
                      /\ calls[c].pc = "panicked"
                      /\ calls[c].out.st = "index out of bounds"

C10_Witness ==
    \E c \in DOMAIN calls :
        /\ calls[c].pc = "panicked"
        /\ TableOfCall(c).built
        /\ requested[calls[c].t].size = 0
        /\ TableOfCall(c).table = <<>>
        /\ calls[c].fs = Zero

====
